---- MODULE Spec2Model ----
(***************************************************************************)
(* Model of the USB audio HAL, modules/usbaudio/audio_hw.c.                *)
(*                                                                         *)
(* Threads of the audio framework call the operations of the HAL on the    *)
(* output streams of one audio_device.  Each call is a sequence of steps:  *)
(* the mutex operations are steps of their own, the code between them is   *)
(* one step.  The transport (tinyalsa) is the environment: pcm_open,       *)
(* pcm_write and pcm_params_get answer nondeterministically.               *)
(*                                                                         *)
(* Lifetime contract of the callers (free(stream) at line 707, free(device)*)
(* at line 1032): a stream is closed by one thread while no other call on  *)
(* that stream is in progress, and the device is closed when it has no     *)
(* stream and no call in progress.                                         *)
(***************************************************************************)
EXTENDS Integers, Sequences, FiniteSets, TLC

(* ---------------------------------------------------------------- bounds *)
NumThreads == 2
NumStreams == 2
MaxFrames == 4              \* a write carries 0..MaxFrames stereo frames
MaxSamples == 4             \* a conversion takes 0..MaxSamples 16-bit samples
MaxChannels == 6            \* a device reports 1..MaxChannels channels
MaxBlocks == 32             \* a dropped write has 0..MaxBlocks blocks of 256 bytes

Threads == 1..NumThreads
Streams == 1..NumStreams
NoThread == 0

(* ------------------------------------------------------ program constants *)
OUT_PERIOD_SIZE == 1024
OUT_PERIOD_COUNT == 4
OUT_SAMPLING_RATE == 44100
IN_PERIOD_SIZE == 1024
IN_PERIOD_COUNT == 4
IN_SAMPLING_RATE == 44100

\* enum pcm_format of tinyalsa
PCM_FORMAT_S16_LE == 0
PCM_FORMAT_S32_LE == 1
PCM_FORMAT_S8 == 2
PCM_FORMAT_S24_LE == 3
PCM_FORMAT_S24_3LE == 4
PCM_FORMAT_MAX == 5

\* audio_format_t and audio_channel_mask_t values of system/audio.h
AUDIO_FORMAT_PCM_16_BIT == 1
AUDIO_FORMAT_PCM_8_BIT == 2
AUDIO_FORMAT_PCM_32_BIT == 3
AUDIO_FORMAT_PCM_8_24_BIT == 4
AUDIO_CHANNEL_NONE == 0
AUDIO_CHANNEL_OUT_MONO == 1
AUDIO_CHANNEL_OUT_STEREO == 3
AUDIO_CHANNEL_OUT_QUAD == 51

EINVAL == 22
ENOMEM == 12
ENOSYS == 38

default_alsa_out_config ==
    [channels |-> 2, rate |-> OUT_SAMPLING_RATE, period_size |-> OUT_PERIOD_SIZE,
     period_count |-> OUT_PERIOD_COUNT, format |-> PCM_FORMAT_S16_LE]

default_alsa_in_config ==
    [channels |-> 2, rate |-> IN_SAMPLING_RATE, period_size |-> IN_PERIOD_SIZE,
     period_count |-> IN_PERIOD_COUNT, format |-> PCM_FORMAT_S16_LE]

\* a static struct pcm_config before anything is stored in it
zero_config ==
    [channels |-> 0, rate |-> 0, period_size |-> 0, period_count |-> 0, format |-> 0]

(* ------------------------------------------------------------- transport *)
\* What pcm_params_get reports for the cards of the model: card 0 is a stereo
\* 16-bit device, card 1 a 4-channel 24-bit packed device.  NoParams is the
\* NULL it returns for a device that is not there.
NoParams == [present |-> FALSE]

\* cards 2 to 5: a mono 32-bit, a 6-channel 16-bit, a 4-channel 32-bit and a
\* stereo 24-bit packed device
OtherCardParams(card) ==
    CASE card = 2 -> [present |-> TRUE, rate |-> <<48000, 48000>>, channels |-> <<1, 2>>,
                      periods |-> <<2, 8>>, bits |-> <<32, 32>>]
      [] card = 3 -> [present |-> TRUE, rate |-> <<48000, 48000>>, channels |-> <<6, 8>>,
                      periods |-> <<2, 8>>, bits |-> <<16, 16>>]
      [] card = 4 -> [present |-> TRUE, rate |-> <<48000, 48000>>, channels |-> <<4, 4>>,
                      periods |-> <<2, 8>>, bits |-> <<32, 32>>]
      [] OTHER -> [present |-> TRUE, rate |-> <<48000, 48000>>, channels |-> <<2, 2>>,
                   periods |-> <<2, 8>>, bits |-> <<24, 24>>]

CardParams(card) ==
    IF card = 0
    THEN [present |-> TRUE, rate |-> <<44100, 48000>>, channels |-> <<2, 2>>,
          periods |-> <<2, 2>>, bits |-> <<16, 16>>]
    ELSE IF card = 1
    THEN [present |-> TRUE, rate |-> <<48000, 48000>>, channels |-> <<4, 4>>,
          periods |-> <<3, 3>>, bits |-> <<24, 24>>]
    ELSE OtherCardParams(card)

pcm_params_get_min(params, what) == params[what][1]
pcm_params_get_max(params, what) == params[what][2]

pcm_format_to_bits(format) ==
    CASE format = PCM_FORMAT_S32_LE -> 32
      [] format = PCM_FORMAT_S24_LE -> 32
      [] format = PCM_FORMAT_S24_3LE -> 24
      [] OTHER -> 16

audio_channel_out_mask_from_count(channel_count) ==
    CASE channel_count = 1 -> AUDIO_CHANNEL_OUT_MONO
      [] channel_count = 2 -> AUDIO_CHANNEL_OUT_STEREO
      [] channel_count = 4 -> AUDIO_CHANNEL_OUT_QUAD
      [] OTHER -> AUDIO_CHANNEL_NONE

(* ----------------------------------------------------------------- state *)
VARIABLES
    adev_alive,          \* the audio_device exists (adev_open .. adev_close)
    lock,                \* audio_device.lock: the thread that holds it, or NoThread
    out_card,            \* audio_device.out_card
    out_device,          \* audio_device.out_device
    cached_output_hardware_config,
    output_hardware_config_is_cached,
    exists,              \* exists[s]: stream_out s is allocated
    out_lock,            \* stream_out.lock: holder or NoThread
    pcm,                 \* stream_out.pcm: "NULL", "open", or "closed" (a dangling pointer)
    pcm_at_open,         \* what the handle of stream s was opened with
    standby,             \* stream_out.standby
    conversion_buffer_size,
    opens,               \* handles the transport gave stream s since it last was in standby
    in_card,             \* audio_device.in_card
    in_device,           \* audio_device.in_device
    in_exists,           \* the framework holds a stream_in
    in_alsa_pcm_config,  \* stream_in.alsa_pcm_config
    in_pcm,              \* stream_in.pcm
    in_standby_flag,     \* stream_in.standby
    in_requested_rate,   \* stream_in.requested_rate
    pc,                  \* pc[t]: where thread t is in its call
    arg,                 \* arg[t]: the call of thread t and its arguments
    res,                 \* res[t]: what the call did and returned
    crashed              \* the process was killed by a memory error

vars == <<adev_alive, lock, out_card, out_device, cached_output_hardware_config,
          output_hardware_config_is_cached, exists, out_lock, pcm, pcm_at_open,
          standby, conversion_buffer_size, opens, in_card, in_device, in_exists,
          in_alsa_pcm_config, in_pcm, in_standby_flag, in_requested_rate, pc, arg, res,
          crashed>>

dev_vars == <<adev_alive, out_card, out_device, in_card, in_device>>
cache_vars == <<cached_output_hardware_config, output_hardware_config_is_cached>>
in_fields == <<in_pcm, in_standby_flag, in_requested_rate>>
in_vars == <<in_exists, in_alsa_pcm_config, in_fields>>
stream_vars == <<exists, pcm, pcm_at_open, standby, conversion_buffer_size, opens, in_vars>>
lock_vars == <<lock, out_lock>>

\* a key of the key/value string that is not there
NoKey == "none"

NoArg == [op |-> "none", s |-> 0, frames |-> 0, card |-> NoKey, device |-> NoKey]
NoReport == [sample_rate |-> 0, format |-> 0, channel_mask |-> 0]
\* the stream before the call: standby, pcm and conversion_buffer_size
NoStream == [standby |-> TRUE, pcm |-> "NULL", size |-> 0]
NoRes == [ret |-> 0, io |-> <<>>, before |-> NoStream, config |-> zero_config,
          cached |-> FALSE, start |-> 0, written |-> 0, reported |-> NoReport,
          usleep |-> -1]
NoOpen == [config |-> zero_config, card |-> 0, device |-> 0]

\* The calls the framework makes.  Calls: one thread, every argument, and what
\* each call did is recorded in res.  Contention: all threads, few arguments,
\* nothing recorded.
KeyCards == {NoKey, "-1", "0", "1"}
KeyDevices == {NoKey, "-1", "0"}

Calls == [threads |-> {1}, streams |-> {1}, frames |-> 0..MaxFrames, cards |-> KeyCards,
          devices |-> KeyDevices, record |-> TRUE]

Queries == [threads |-> {1}, streams |-> Streams, frames |-> {1},
            cards |-> {NoKey, "0", "1"}, devices |-> {NoKey}, record |-> TRUE]

Formats == [threads |-> {1}, streams |-> {1}, frames |-> 0..MaxFrames,
            cards |-> {NoKey, "2", "3", "4", "5"}, devices |-> {NoKey}, record |-> TRUE]

Contention == [threads |-> Threads, streams |-> Streams, frames |-> {1}, cards |-> {NoKey, "1"},
               devices |-> {NoKey}, record |-> FALSE]

(* ------------------------------------------------------------ utilities *)
\* atoi of the value strings the model passes
atoi(value) ==
    CASE value = "-1" -> -1
      [] value = "1" -> 1
      [] value = "2" -> 2
      [] value = "3" -> 3
      [] value = "4" -> 4
      [] value = "5" -> 5
      [] OTHER -> 0

alsa_to_fw_format_id(alsa_fmt_id) ==
    CASE alsa_fmt_id = PCM_FORMAT_S8 -> AUDIO_FORMAT_PCM_8_BIT
      [] alsa_fmt_id = PCM_FORMAT_S24_3LE -> AUDIO_FORMAT_PCM_8_24_BIT
      [] alsa_fmt_id = PCM_FORMAT_S32_LE -> AUDIO_FORMAT_PCM_32_BIT
      [] alsa_fmt_id = PCM_FORMAT_S24_LE -> AUDIO_FORMAT_PCM_32_BIT
      [] OTHER -> AUDIO_FORMAT_PCM_16_BIT

\* the first format from PCM_FORMAT_S16_LE upward with that many bits
RECURSIVE bits_to_alsa_format_from(_, _, _)
bits_to_alsa_format_from(format, bits_per_sample, default_format) ==
    IF format >= PCM_FORMAT_MAX THEN default_format
    ELSE IF pcm_format_to_bits(format) = bits_per_sample THEN format
    ELSE bits_to_alsa_format_from(format + 1, bits_per_sample, default_format)

\* the last format with that many bits
bits_to_alsa_format_last(bits_per_sample, default_format) ==
    LET match == {format \in PCM_FORMAT_S16_LE..(PCM_FORMAT_MAX - 1) :
                    pcm_format_to_bits(format) = bits_per_sample}
    IN  IF match = {} THEN default_format
        ELSE CHOOSE format \in match : \A other \in match : other <= format

bits_to_alsa_format(bits_per_sample, default_format) ==
    bits_to_alsa_format_from(PCM_FORMAT_S16_LE, bits_per_sample, default_format)

\* a resolver that leaves the period count of *config as it was
read_alsa_device_config_keeps_period_count(card, device, alsa_hw_params, config) ==
    IF card < 0 \/ device < 0 THEN [ret |-> -EINVAL, config |-> config]
    ELSE IF ~alsa_hw_params.present THEN [ret |-> -EINVAL, config |-> config]
    ELSE [ret |-> 0,
          config |->
            [channels |-> pcm_params_get_min(alsa_hw_params, "channels"),
             rate |-> pcm_params_get_min(alsa_hw_params, "rate"),
             period_size |-> pcm_params_get_max(alsa_hw_params, "periods"),
             period_count |-> config.period_count,
             format |-> bits_to_alsa_format(
                            pcm_params_get_min(alsa_hw_params, "bits"),
                            PCM_FORMAT_S16_LE)]]

\* read_alsa_device_config: the return value and the config it leaves in *config
read_alsa_device_config(card, device, alsa_hw_params, config) ==
    IF card < 0 \/ device < 0 THEN [ret |-> -EINVAL, config |-> config]
    ELSE IF ~alsa_hw_params.present THEN [ret |-> -EINVAL, config |-> config]
    ELSE [ret |-> 0,
          config |->
            [channels |-> pcm_params_get_min(alsa_hw_params, "channels"),
             rate |-> pcm_params_get_min(alsa_hw_params, "rate"),
             period_size |-> pcm_params_get_max(alsa_hw_params, "periods"),
             period_count |-> pcm_params_get_min(alsa_hw_params, "periods"),
             format |-> bits_to_alsa_format(
                            pcm_params_get_min(alsa_hw_params, "bits"),
                            PCM_FORMAT_S16_LE)]]

(* ------------------------------------------------------ data conversions *)
\* Buffers are sequences of bytes; the 16-bit sample i (from 0) of a buffer is
\* its bytes 2i+1 and 2i+2.  A conversion whose source is its destination
\* (alias) reads what it has already written, as the code does.
GetShort(b, i) == <<b[2 * i + 1], b[2 * i + 2]>>
PutShort(b, i, v) == [b EXCEPT ![2 * i + 1] = v[1], ![2 * i + 2] = v[2]]

\* memory nobody has written yet
Poison == -1
Fresh(n) == [i \in 1..n |-> Poison]

\* The loops go on with the destination that one pass leaves: the one element
\* of {F(o) : o \in {pass}} is F(pass), with pass evaluated once.

\* a pass that pads the high-order byte
convert_16_to_24_3_pass_pads_high(in_buff, out_buff, alias, num_in_samples, src_smpl_index) ==
    LET dst == 3 * num_in_samples - 3 * src_smpl_index
        src == 2 * num_in_samples - 2 * src_smpl_index
        o1 == [out_buff EXCEPT ![dst] = 0]
        o2 == [o1 EXCEPT ![dst - 1] = (IF alias THEN o1 ELSE in_buff)[src]]
    IN  [o2 EXCEPT ![dst - 2] = (IF alias THEN o2 ELSE in_buff)[src - 1]]

\* one pass of the loop at lines 182-189: the destination after it
convert_16_to_24_3_pass(in_buff, out_buff, alias, num_in_samples, src_smpl_index) ==
    LET dst == 3 * num_in_samples - 3 * src_smpl_index   \* dst_ptr, as a position
        src == 2 * num_in_samples - 2 * src_smpl_index   \* src_ptr, as a position
        o1 == [out_buff EXCEPT ![dst] = (IF alias THEN out_buff ELSE in_buff)[src]]
        o2 == [o1 EXCEPT ![dst - 1] = (IF alias THEN o1 ELSE in_buff)[src - 1]]
    IN  [o2 EXCEPT ![dst - 2] = 0]

RECURSIVE convert_16_to_24_3_loop(_, _, _, _, _)
convert_16_to_24_3_loop(in_buff, out_buff, alias, num_in_samples, src_smpl_index) ==
    IF src_smpl_index >= num_in_samples THEN out_buff
    ELSE CHOOSE r \in
            {convert_16_to_24_3_loop(in_buff, o, alias, num_in_samples, src_smpl_index + 1) :
                o \in {convert_16_to_24_3_pass(in_buff, out_buff, alias, num_in_samples,
                                               src_smpl_index)}} : TRUE

\* the bytes produced, and the destination after the call
convert_16_to_24_3(in_buff, num_in_samples, out_buff, alias) ==
    [bytes |-> (3 * (num_in_samples * 2)) \div 2,
     buff |-> convert_16_to_24_3_loop(in_buff, out_buff, alias, num_in_samples, 0)]

\* a pass of a loop that moves from front to back
convert_2chan16_to_4chan16_pass_forward(in_buff, out_buff, alias, num_in_samples, src_index) ==
    LET dst == 2 * src_index
        src == src_index
        o1 == PutShort(out_buff, dst, GetShort(IF alias THEN out_buff ELSE in_buff, src))
        o2 == PutShort(o1, dst + 1, GetShort(IF alias THEN o1 ELSE in_buff, src + 1))
        o3 == PutShort(o2, dst + 2, <<0, 0>>)
    IN  PutShort(o3, dst + 3, <<0, 0>>)

\* one pass of the loop at lines 216-222: the destination after it
convert_2chan16_to_4chan16_pass(in_buff, out_buff, alias, num_in_samples, src_index) ==
    LET dst == 2 * num_in_samples - 1 - 2 * src_index    \* dst_ptr, as a sample index
        src == num_in_samples - 1 - src_index            \* src_ptr, as a sample index
        o1 == PutShort(out_buff, dst, <<0, 0>>)
        o2 == PutShort(o1, dst - 1, <<0, 0>>)
        o3 == PutShort(o2, dst - 2, GetShort(IF alias THEN o2 ELSE in_buff, src))
    IN  PutShort(o3, dst - 3, GetShort(IF alias THEN o3 ELSE in_buff, src - 1))

RECURSIVE convert_2chan16_to_4chan16_loop(_, _, _, _, _)
convert_2chan16_to_4chan16_loop(in_buff, out_buff, alias, num_in_samples, src_index) ==
    IF src_index >= num_in_samples THEN out_buff
    ELSE CHOOSE r \in
            {convert_2chan16_to_4chan16_loop(in_buff, o, alias, num_in_samples, src_index + 2) :
                o \in {convert_2chan16_to_4chan16_pass(in_buff, out_buff, alias,
                                                       num_in_samples, src_index)}} : TRUE

convert_2chan16_to_4chan16(in_buff, num_in_samples, out_buff, alias) ==
    [bytes |-> (num_in_samples * 2) * 2,
     buff |-> convert_2chan16_to_4chan16_loop(in_buff, out_buff, alias, num_in_samples, 0)]

\* the bytes of a caller's buffer of that many stereo 16-bit frames
AudioData(frames) == [i \in 1..(4 * frames) |-> (i * 37) % 256]

(* ------------------------------------------------------- getters (pure) *)
\* The getters take the stream and read nothing of it.

\* the rate the transport of the stream was opened with
out_get_sample_rate_at_open(s) ==
    IF pcm[s] = "open" THEN pcm_at_open[s].config.rate
    ELSE cached_output_hardware_config.rate

out_get_sample_rate(s) == cached_output_hardware_config.rate

out_get_channels(s) == AUDIO_CHANNEL_OUT_STEREO

out_get_format(s) == AUDIO_FORMAT_PCM_16_BIT

\* popcount of a channel mask, and the bytes of a sample of a format
audio_channel_count_from_out_mask(mask) ==
    Cardinality({i \in 0..7 : (mask \div (2 ^ i)) % 2 = 1})

audio_bytes_per_sample(format) ==
    CASE format = AUDIO_FORMAT_PCM_16_BIT -> 2
      [] format = AUDIO_FORMAT_PCM_8_BIT -> 1
      [] format \in {AUDIO_FORMAT_PCM_32_BIT, AUDIO_FORMAT_PCM_8_24_BIT} -> 4
      [] OTHER -> 0

\* the frame size the framework computes from get_channels and get_format
audio_stream_frame_size(s) ==
    audio_channel_count_from_out_mask(out_get_channels(s))
        * audio_bytes_per_sample(out_get_format(s))

out_get_buffer_size(s) ==
    cached_output_hardware_config.period_size * audio_stream_frame_size(s)

\* uint32_t arithmetic; the products of the model stay far below 2^32
out_get_latency(s) ==
    (cached_output_hardware_config.period_size
        * cached_output_hardware_config.period_count * 1000)
    \div out_get_sample_rate(s)

(* ------------------------------------------------------------------ Init *)
\* After adev_open: calloc zeroes the audio_device, the statics are zero.
Init ==
    /\ adev_alive = TRUE
    /\ lock = NoThread
    /\ out_card = 0
    /\ out_device = 0
    /\ in_card = 0
    /\ in_device = 0
    /\ in_exists = FALSE
    /\ in_alsa_pcm_config = zero_config
    /\ in_pcm = "NULL"
    /\ in_standby_flag = TRUE
    /\ in_requested_rate = 0
    /\ cached_output_hardware_config = zero_config
    /\ output_hardware_config_is_cached = FALSE
    /\ exists = [s \in Streams |-> FALSE]
    /\ out_lock = [s \in Streams |-> NoThread]
    /\ pcm = [s \in Streams |-> "NULL"]
    /\ pcm_at_open = [s \in Streams |-> NoOpen]
    /\ standby = [s \in Streams |-> TRUE]
    /\ conversion_buffer_size = [s \in Streams |-> 0]
    /\ opens = [s \in Streams |-> 0]
    /\ pc = [t \in Threads |-> "idle"]
    /\ arg = [t \in Threads |-> NoArg]
    /\ res = [t \in Threads |-> NoRes]
    /\ crashed = FALSE

(* ------------------------------------------------------------- the calls *)
Goto(t, where) == pc' = [pc EXCEPT ![t] = where]

\* what a call did, kept when the workload records it
Record(w, t, r) == res' = IF w.record THEN [res EXCEPT ![t] = r] ELSE res

\* the call is over
Leave(w, t) ==
    /\ pc' = [pc EXCEPT ![t] = IF w.record THEN "done" ELSE "idle"]
    /\ arg' = IF w.record THEN arg ELSE [arg EXCEPT ![t] = NoArg]

\* some thread other than t is in a call on stream s
InUse(s, t) == \E u \in Threads \ {t} : arg[u].s = s

\* a thread may call a stream operation: the stream exists and nobody closes it
MayCall(w, t, s) ==
    /\ ~crashed
    /\ adev_alive
    /\ t \in w.threads
    /\ s \in w.streams
    /\ pc[t] = "idle"
    /\ exists[s]
    /\ \A u \in Threads : arg[u].op # "adev_close_output_stream" \/ arg[u].s # s

Call(t, op, s, where) ==
    /\ arg' = [arg EXCEPT ![t] = [NoArg EXCEPT !.op = op, !.s = s]]
    /\ Goto(t, where)
    /\ UNCHANGED <<dev_vars, cache_vars, stream_vars, lock_vars, res, crashed>>

\* pthread_mutex_lock(&adev->lock)
LockDevice(t, here, next) ==
    /\ ~crashed
    /\ pc[t] = here
    /\ lock = NoThread
    /\ lock' = t
    /\ Goto(t, next)
    /\ UNCHANGED <<dev_vars, cache_vars, stream_vars, out_lock, arg, res, crashed>>

\* pthread_mutex_unlock(&adev->lock)
UnlockDevice(t, here, next) ==
    /\ ~crashed
    /\ pc[t] = here
    /\ lock' = NoThread
    /\ Goto(t, next)
    /\ UNCHANGED <<dev_vars, cache_vars, stream_vars, out_lock, arg, res, crashed>>

\* pthread_mutex_lock(&out->lock)
LockStream(t, here, next) ==
    /\ ~crashed
    /\ pc[t] = here
    /\ out_lock[arg[t].s] = NoThread
    /\ out_lock' = [out_lock EXCEPT ![arg[t].s] = t]
    /\ Goto(t, next)
    /\ UNCHANGED <<dev_vars, cache_vars, stream_vars, lock, arg, res, crashed>>

\* pthread_mutex_unlock(&out->lock)
UnlockStream(t, here, next) ==
    /\ ~crashed
    /\ pc[t] = here
    /\ out_lock' = [out_lock EXCEPT ![arg[t].s] = NoThread]
    /\ Goto(t, next)
    /\ UNCHANGED <<dev_vars, cache_vars, stream_vars, lock, arg, res, crashed>>

\* the framework has the result of the call
Return(t) ==
    /\ ~crashed
    /\ pc[t] = "done"
    /\ pc' = [pc EXCEPT ![t] = "idle"]
    /\ arg' = [arg EXCEPT ![t] = NoArg]
    /\ res' = [res EXCEPT ![t] = NoRes]
    /\ UNCHANGED <<dev_vars, cache_vars, stream_vars, lock_vars, crashed>>

Event(call, r, data) == [call |-> call, r |-> r, data |-> data]

Before(s) == [standby |-> standby[s], pcm |-> pcm[s], size |-> conversion_buffer_size[s]]

(* ------------------------------------------------------------ out_standby *)
call_out_standby(w, t) ==
    \E s \in Streams :
        /\ MayCall(w, t, s)
        /\ Call(t, "out_standby", s, "standby_lock_dev")

\* out_standby closing the transport whatever the state of the stream
out_standby_closes_always(s) == TRUE

\* line 340: the transport is closed when the stream is not in standby
out_standby_closes(s) == ~standby[s]

\* lines 340-344, with both locks held
out_standby_body(w, t) ==
    LET s == arg[t].s IN
    /\ ~crashed
    /\ pc[t] = "standby_body"
    /\ IF out_standby_closes(s)
       THEN /\ pcm' = [pcm EXCEPT ![s] = "NULL"]
            /\ standby' = [standby EXCEPT ![s] = TRUE]
            /\ pcm_at_open' = [pcm_at_open EXCEPT ![s] = NoOpen]
            /\ opens' = [opens EXCEPT ![s] = 0]
            /\ Record(w, t, [NoRes EXCEPT !.before = Before(s),
                                          !.io = <<Event("pcm_close", pcm[s], <<>>)>>])
       ELSE /\ UNCHANGED <<pcm, standby, pcm_at_open, opens>>
            /\ Record(w, t, [NoRes EXCEPT !.before = Before(s)])
    /\ Goto(t, "standby_unlock_out")
    /\ UNCHANGED <<dev_vars, cache_vars, exists, conversion_buffer_size, in_vars, lock_vars, arg,
                   crashed>>

\* lines 347-349, or back in adev_close_output_stream at line 701
out_standby_unlock_dev(w, t) ==
    /\ ~crashed
    /\ pc[t] = "standby_unlock_dev"
    /\ lock' = NoThread
    /\ IF arg[t].op = "adev_close_output_stream"
       THEN Goto(t, "close_free") /\ UNCHANGED arg
       ELSE Leave(w, t)
    /\ UNCHANGED <<dev_vars, cache_vars, stream_vars, out_lock, res, crashed>>

\* out_standby taking the stream lock before the device lock
out_standby_stream_first(w, t) ==
    \/ LockStream(t, "standby_lock_dev", "standby_lock_out")
    \/ LockDevice(t, "standby_lock_out", "standby_body")
    \/ out_standby_body(w, t)
    \/ UnlockStream(t, "standby_unlock_out", "standby_unlock_dev")
    \/ out_standby_unlock_dev(w, t)

out_standby(w, t) ==
    \/ LockDevice(t, "standby_lock_dev", "standby_lock_out")
    \/ LockStream(t, "standby_lock_out", "standby_body")
    \/ out_standby_body(w, t)
    \/ UnlockStream(t, "standby_unlock_out", "standby_unlock_dev")
    \/ out_standby_unlock_dev(w, t)

(* -------------------------------------------------------------- out_write *)
call_out_write(w, t) ==
    \E s \in Streams :
        /\ MayCall(w, t, s)
        /\ Call(t, "out_write", s, "write_lock_dev")

\* out_write opening the transport on every call
out_write_starts_always(s) == TRUE

\* line 524: the transport is opened when the stream is in standby
out_write_starts(s) == standby[s]

\* start_output_stream sizing the conversion buffer before it looks at the handle
start_output_stream_allocates_first(s, answer) ==
    LET size == (out_get_buffer_size(s) * 3 * 2) \div 2 IN
    CASE answer = "null" ->
            [ret |-> -ENOMEM, pcm |-> "NULL", at_open |-> pcm_at_open[s],
             conversion_buffer_size |-> size,
             io |-> <<Event("pcm_open", "null", <<>>)>>]
      [] answer = "notready" ->
            [ret |-> -ENOMEM, pcm |-> "closed", at_open |-> pcm_at_open[s],
             conversion_buffer_size |-> size,
             io |-> <<Event("pcm_open", "notready", <<>>),
                      Event("pcm_close", "open", <<>>)>>]
      [] OTHER ->
            [ret |-> 0, pcm |-> "open",
             at_open |-> [config |-> cached_output_hardware_config,
                          card |-> out_card, device |-> out_device],
             conversion_buffer_size |-> size,
             io |-> <<Event("pcm_open", "ready", <<>>)>>]

\* start_output_stream: what it leaves in the stream and returns, for each answer
\* of pcm_open ("null": no handle, "notready": a handle that is not ready)
start_output_stream(s, answer) ==
    CASE answer = "null" ->
            [ret |-> -ENOMEM, pcm |-> "NULL", at_open |-> pcm_at_open[s],
             conversion_buffer_size |-> conversion_buffer_size[s],
             io |-> <<Event("pcm_open", "null", <<>>)>>]
      [] answer = "notready" ->
            [ret |-> -ENOMEM, pcm |-> "closed", at_open |-> pcm_at_open[s],
             conversion_buffer_size |-> conversion_buffer_size[s],
             io |-> <<Event("pcm_open", "notready", <<>>),
                      Event("pcm_close", "open", <<>>)>>]
      [] OTHER ->
            [ret |-> 0, pcm |-> "open",
             at_open |-> [config |-> cached_output_hardware_config,
                          card |-> out_card, device |-> out_device],
             conversion_buffer_size |-> (out_get_buffer_size(s) * 3 * 2) \div 2,
             io |-> <<Event("pcm_open", "ready", <<>>)>>]

\* a channel conversion for every device that is not stereo
channel_conversion_not_stereo(config, buffer, bytes) ==
    IF config.channels # 2
    THEN CHOOSE r \in
            {[buff |-> c.buff, bytes |-> c.bytes, conv |-> TRUE, peak |-> c.bytes] :
                c \in {convert_2chan16_to_4chan16(buffer, bytes \div 2, Fresh(2 * bytes),
                                                  FALSE)}} : TRUE
    ELSE [buff |-> buffer, bytes |-> bytes, conv |-> FALSE, peak |-> 0]

\* lines 535-544: the buffer and byte count handed on, whether it is the
\* conversion buffer (conv) and how many bytes were written to that (peak)
channel_conversion(config, buffer, bytes) ==
    IF config.channels # 2 /\ config.channels = 4
    THEN CHOOSE r \in
            {[buff |-> c.buff, bytes |-> c.bytes, conv |-> TRUE, peak |-> c.bytes] :
                c \in {convert_2chan16_to_4chan16(buffer, bytes \div 2, Fresh(2 * bytes),
                                                  FALSE)}} : TRUE
    ELSE [buff |-> buffer, bytes |-> bytes, conv |-> FALSE, peak |-> 0]

\* lines 549-566, on what the channel conversion handed on
format_conversion(config, chan) ==
    IF config.format = PCM_FORMAT_S24_3LE
    THEN LET n == chan.bytes \div 2
             room == IF chan.conv THEN chan.buff \o Fresh(3 * n - chan.bytes)
                     ELSE Fresh(3 * n)
         IN  CHOOSE r \in
                {[buff |-> c.buff, bytes |-> c.bytes, conv |-> TRUE,
                  peak |-> IF c.bytes > chan.peak THEN c.bytes ELSE chan.peak] :
                    c \in {convert_16_to_24_3(chan.buff, n, room, chan.conv)}} : TRUE
    ELSE chan

\* lines 532-566
Conversions(config, buffer, bytes) ==
    CHOOSE r \in {format_conversion(config, chan) :
                    chan \in {channel_conversion(config, buffer, bytes)}} : TRUE

\* out_write returning the error of start_output_stream
out_write_return_status(bytes, start, num_write_buff_bytes) ==
    IF start # 0 THEN start ELSE bytes

\* what out_write returns: bytes, whatever start_output_stream returned and
\* however many bytes went to the transport
out_write_return(bytes, start, num_write_buff_bytes) == bytes

\* lines 524-570, with both locks held.  A conversion that writes past the end
\* of the conversion buffer is undefined: the memory next to it takes the bytes
\* and keeps them ("intact"), its owner overwrites them before the transport
\* reads them ("clobbered"), or the process is killed ("killed").
out_write_body(w, t) ==
    LET s == arg[t].s IN
    /\ ~crashed
    /\ pc[t] = "write_body"
    /\ \E frames \in w.frames :
       \E cv \in {Conversions(cached_output_hardware_config, AudioData(frames),
                              4 * frames)} :
       \E answer \in {"null", "notready", "ready"}, written \in {"ok", "failed"},
          undefined \in {"intact", "clobbered", "killed"} :
        LET st == IF out_write_starts(s) THEN start_output_stream(s, answer)
                  ELSE [ret |-> 0, pcm |-> pcm[s], at_open |-> pcm_at_open[s],
                        conversion_buffer_size |-> conversion_buffer_size[s],
                        io |-> <<>>]
            overflow == cv.peak > st.conversion_buffer_size
            write_buff ==
                IF overflow /\ undefined = "clobbered"
                THEN [i \in 1..cv.bytes |->
                        IF i > st.conversion_buffer_size THEN Poison ELSE cv.buff[i]]
                ELSE SubSeq(cv.buff, 1, cv.bytes)
            io == IF cv.bytes # 0
                  THEN <<Event("pcm_write", written, write_buff)>>
                  ELSE <<>>
            r == [NoRes EXCEPT !.before = Before(s),
                               !.config = cached_output_hardware_config,
                               !.start = st.ret,
                               !.written = cv.bytes]
        IN
        /\ arg' = IF w.record THEN [arg EXCEPT ![t].frames = frames] ELSE arg
        /\ pcm' = [pcm EXCEPT ![s] = st.pcm]
        /\ pcm_at_open' = [pcm_at_open EXCEPT ![s] = st.at_open]
        /\ conversion_buffer_size' =
              [conversion_buffer_size EXCEPT ![s] = st.conversion_buffer_size]
        /\ IF st.ret # 0
           THEN /\ Record(w, t, [r EXCEPT !.io = st.io, !.written = 0])
                /\ Goto(t, "write_err_unlock_out")
                /\ UNCHANGED <<standby, opens, crashed>>
           ELSE /\ standby' = [standby EXCEPT ![s] = FALSE]
                /\ opens' = [opens EXCEPT ![s] = IF st.io # <<>> THEN @ + 1 ELSE @]
                /\ IF overflow /\ undefined = "killed"
                   THEN /\ crashed' = TRUE
                        /\ Record(w, t, [r EXCEPT !.io = st.io])
                        /\ Goto(t, "killed")
                   ELSE /\ crashed' = FALSE
                        /\ Record(w, t, [r EXCEPT !.io = st.io \o io])
                        /\ Goto(t, "write_unlock_out")
    /\ UNCHANGED <<dev_vars, cache_vars, exists, in_vars, lock_vars>>

\* line 573 and "return bytes" at line 575
out_write_unlock_dev(w, t) ==
    /\ ~crashed
    /\ pc[t] = "write_unlock_dev"
    /\ lock' = NoThread
    /\ Record(w, t, [res[t] EXCEPT
                       !.ret = out_write_return(4 * arg[t].frames, res[t].start,
                                                res[t].written)])
    /\ Leave(w, t)
    /\ UNCHANGED <<dev_vars, cache_vars, stream_vars, out_lock, crashed>>

\* the duration handed to usleep at lines 581-582
out_write_sleep_time(s, bytes) ==
    ((bytes * 1000000) \div audio_stream_frame_size(s)) \div out_get_sample_rate(s)

\* lines 580-585, on the path of "goto err": ret is not 0 there
out_write_usleep(w, t) ==
    /\ ~crashed
    /\ pc[t] = "write_usleep"
    /\ Record(w, t, [res[t] EXCEPT
                       !.usleep = out_write_sleep_time(arg[t].s, 4 * arg[t].frames),
                       !.ret = out_write_return(4 * arg[t].frames, res[t].start,
                                                res[t].written)])
    /\ Leave(w, t)
    /\ UNCHANGED <<dev_vars, cache_vars, stream_vars, lock_vars, crashed>>

\* out_write leaving by "goto err" with the stream lock held
out_write_err_keeps_lock(w, t) ==
    \/ LockDevice(t, "write_lock_dev", "write_lock_out")
    \/ LockStream(t, "write_lock_out", "write_body")
    \/ out_write_body(w, t)
    \/ UnlockStream(t, "write_unlock_out", "write_unlock_dev")
    \/ out_write_unlock_dev(w, t)
    \/ UnlockDevice(t, "write_err_unlock_out", "write_usleep")
    \/ out_write_usleep(w, t)

\* out_write sleeping on the path of "goto err" before it unlocks the device
out_write_err_sleeps_locked(w, t) ==
    \/ LockDevice(t, "write_lock_dev", "write_lock_out")
    \/ LockStream(t, "write_lock_out", "write_body")
    \/ out_write_body(w, t)
    \/ UnlockStream(t, "write_unlock_out", "write_unlock_dev")
    \/ out_write_unlock_dev(w, t)
    \/ UnlockStream(t, "write_err_unlock_out", "write_usleep")
    \/ out_write_usleep(w, t)

out_write(w, t) ==
    \/ LockDevice(t, "write_lock_dev", "write_lock_out")
    \/ LockStream(t, "write_lock_out", "write_body")
    \/ out_write_body(w, t)
    \/ UnlockStream(t, "write_unlock_out", "write_unlock_dev")
    \/ out_write_unlock_dev(w, t)
    \/ UnlockStream(t, "write_err_unlock_out", "write_err_unlock_dev")
    \/ UnlockDevice(t, "write_err_unlock_dev", "write_usleep")
    \/ out_write_usleep(w, t)

(* ----------------------------------------------------- out_set_parameters *)
call_out_set_parameters(w, t) ==
    \E s \in Streams :
        /\ MayCall(w, t, s)
        /\ Call(t, "out_set_parameters", s, "setparam_lock_dev")

\* lines 372-389, with the device lock held, for the "card" and "device" of
\* kvpairs; the transport has the device or not
out_set_parameters_body(w, t) ==
    /\ ~crashed
    /\ pc[t] = "setparam_body"
    /\ \E key_card \in w.cards, key_device \in w.devices :
        LET card == IF key_card # NoKey THEN atoi(key_card) ELSE out_card
            device == IF key_device # NoKey THEN atoi(key_device) ELSE out_device
            recache_device_params == key_card # NoKey \/ key_device # NoKey
        IN
        /\ arg' = IF w.record
                  THEN [arg EXCEPT ![t].card = key_card, ![t].device = key_device]
                  ELSE arg
        /\ out_card' = card
        /\ out_device' = device
        /\ IF recache_device_params /\ card >= 0 /\ device >= 0
           THEN \E alsa_hw_params \in {CardParams(card), NoParams} :
                  LET r == read_alsa_device_config(card, device, alsa_hw_params,
                                                   cached_output_hardware_config)
                  IN  /\ cached_output_hardware_config' = r.config
                      /\ output_hardware_config_is_cached' = (r.ret = 0)
                      /\ Record(w, t, [NoRes EXCEPT
                                            !.ret = r.ret,
                                            !.config = cached_output_hardware_config,
                                            !.cached = output_hardware_config_is_cached])
           ELSE /\ UNCHANGED cache_vars
                /\ Record(w, t, [NoRes EXCEPT
                                      !.ret = 0,
                                      !.config = cached_output_hardware_config,
                                      !.cached = output_hardware_config_is_cached])
    /\ Goto(t, "setparam_unlock_dev")
    /\ UNCHANGED <<adev_alive, in_card, in_device, stream_vars, lock_vars, crashed>>

\* lines 391-394
out_set_parameters_unlock_dev(w, t) ==
    /\ ~crashed
    /\ pc[t] = "setparam_unlock_dev"
    /\ lock' = NoThread
    /\ Leave(w, t)
    /\ UNCHANGED <<dev_vars, cache_vars, stream_vars, out_lock, res, crashed>>

out_set_parameters(w, t) ==
    \/ LockDevice(t, "setparam_lock_dev", "setparam_body")
    \/ out_set_parameters_body(w, t)
    \/ out_set_parameters_unlock_dev(w, t)

(* ------------------------------------------------ adev_open_output_stream *)
\* a stream that is not allocated and that no other thread is allocating
call_adev_open_output_stream(w, t) ==
    \E s \in Streams :
        /\ ~crashed
        /\ adev_alive
        /\ t \in w.threads
        /\ s \in w.streams
        /\ pc[t] = "idle"
        /\ ~exists[s]
        /\ \A u \in Threads : arg[u].s # s
        /\ Call(t, "adev_open_output_stream", s, "open_check")

\* line 649: the flag is read, without a lock
adev_open_output_stream_check(t) ==
    /\ ~crashed
    /\ pc[t] = "open_check"
    /\ Goto(t, IF output_hardware_config_is_cached THEN "open_cached" ELSE "open_default")
    /\ UNCHANGED <<dev_vars, cache_vars, stream_vars, lock_vars, arg, res, crashed>>

\* the format and channel mask written to *config at lines 652-667
reported_format(alsa_format) ==
    IF alsa_to_fw_format_id(alsa_format) # AUDIO_FORMAT_PCM_16_BIT
    THEN AUDIO_FORMAT_PCM_16_BIT
    ELSE alsa_to_fw_format_id(alsa_format)

\* the channel mask of the device, as it is
reported_channel_mask_of_device(channels) == audio_channel_out_mask_from_count(channels)

reported_channel_mask(channels) ==
    IF audio_channel_out_mask_from_count(channels) # AUDIO_CHANNEL_OUT_STEREO
    THEN AUDIO_CHANNEL_OUT_STEREO
    ELSE audio_channel_out_mask_from_count(channels)

\* lines 650-685
adev_open_output_stream_fill(w, t) ==
    LET s == arg[t].s IN
    /\ ~crashed
    /\ pc[t] \in {"open_cached", "open_default"}
    /\ IF pc[t] = "open_cached"
       THEN /\ Record(w, t, [NoRes EXCEPT
                !.config = cached_output_hardware_config,
                !.cached = TRUE,
                !.reported =
                    [sample_rate |-> cached_output_hardware_config.rate,
                     format |-> reported_format(cached_output_hardware_config.format),
                     channel_mask |->
                         reported_channel_mask(cached_output_hardware_config.channels)]])
            /\ UNCHANGED cached_output_hardware_config
       ELSE /\ cached_output_hardware_config' = default_alsa_out_config
            /\ Record(w, t, [NoRes EXCEPT
                !.config = cached_output_hardware_config,
                !.reported =
                    [sample_rate |-> default_alsa_out_config.rate,
                     format |-> out_get_format(s),
                     channel_mask |-> out_get_channels(s)]])
    /\ exists' = [exists EXCEPT ![s] = TRUE]
    /\ pcm' = [pcm EXCEPT ![s] = "NULL"]
    /\ pcm_at_open' = [pcm_at_open EXCEPT ![s] = NoOpen]
    /\ standby' = [standby EXCEPT ![s] = TRUE]
    /\ conversion_buffer_size' = [conversion_buffer_size EXCEPT ![s] = 0]
    /\ opens' = [opens EXCEPT ![s] = 0]
    /\ Leave(w, t)
    /\ UNCHANGED <<dev_vars, output_hardware_config_is_cached, in_vars, lock_vars, crashed>>

adev_open_output_stream(w, t) ==
    \/ adev_open_output_stream_check(t)
    \/ adev_open_output_stream_fill(w, t)

(* ----------------------------------------------- adev_close_output_stream *)
\* a close that frees the stream without out_standby
call_adev_close_output_stream_frees_only(w, t) ==
    \E s \in Streams :
        /\ MayCall(w, t, s)
        /\ ~InUse(s, t)
        /\ Call(t, "adev_close_output_stream", s, "close_free")

call_adev_close_output_stream(w, t) ==
    \E s \in Streams :
        /\ MayCall(w, t, s)
        /\ ~InUse(s, t)
        /\ Call(t, "adev_close_output_stream", s, "standby_lock_dev")

\* lines 703-707, after out_standby
adev_close_output_stream_free(w, t) ==
    LET s == arg[t].s IN
    /\ ~crashed
    /\ pc[t] = "close_free"
    /\ exists' = [exists EXCEPT ![s] = FALSE]
    /\ conversion_buffer_size' = [conversion_buffer_size EXCEPT ![s] = 0]
    /\ Leave(w, t)
    /\ UNCHANGED <<dev_vars, cache_vars, pcm, pcm_at_open, standby, opens, in_vars, lock_vars,
                   res, crashed>>

(* ---------------------------------------------------------------- getters *)
Getters == {"out_get_sample_rate", "out_get_buffer_size", "out_get_latency",
            "out_get_channels", "out_get_format"}

GetterValue(op, s) ==
    CASE op = "out_get_sample_rate" -> out_get_sample_rate(s)
      [] op = "out_get_buffer_size" -> out_get_buffer_size(s)
      [] op = "out_get_latency" -> out_get_latency(s)
      [] op = "out_get_channels" -> out_get_channels(s)
      [] OTHER -> out_get_format(s)

\* lines 297-326 and 466-475: no lock is taken
call_getter(w, t) ==
    \E s \in Streams, op \in Getters :
        /\ MayCall(w, t, s)
        /\ Record(w, t, [NoRes EXCEPT !.ret = GetterValue(op, s),
                                      !.config = cached_output_hardware_config])
        /\ pc' = [pc EXCEPT ![t] = IF w.record THEN "done" ELSE "idle"]
        /\ arg' = IF w.record THEN [arg EXCEPT ![t] = [NoArg EXCEPT !.op = op, !.s = s]]
                  ELSE arg
        /\ UNCHANGED <<dev_vars, cache_vars, stream_vars, lock_vars, crashed>>

(* ------------------------------------------------- what the HAL does not do *)
\* lines 477-481
out_set_volume(s, left, right) == -ENOSYS

\* lines 588-592
out_get_render_position(s) == -EINVAL

Volumes == {0, 1}

\* neither takes a lock or reads the stream
call_unsupported(w, t) ==
    \E s \in Streams, op \in {"out_set_volume", "out_get_render_position"},
       left \in Volumes, right \in Volumes :
        /\ MayCall(w, t, s)
        /\ Record(w, t, [NoRes EXCEPT
                !.ret = IF op = "out_set_volume" THEN out_set_volume(s, left, right)
                        ELSE out_get_render_position(s),
                !.before = Before(s),
                !.config = cached_output_hardware_config,
                !.cached = output_hardware_config_is_cached])
        /\ pc' = [pc EXCEPT ![t] = IF w.record THEN "done" ELSE "idle"]
        /\ arg' = IF w.record THEN [arg EXCEPT ![t] = [NoArg EXCEPT !.op = op, !.s = s]]
                  ELSE arg
        /\ UNCHANGED <<dev_vars, cache_vars, stream_vars, lock_vars, crashed>>

(* ------------------------------------------------- adev_close and adev_open *)
\* lines 1027-1037, when the framework is done with the device
adev_close ==
    /\ ~crashed
    /\ adev_alive
    /\ \A t \in Threads : pc[t] = "idle"
    /\ \A s \in Streams : ~exists[s]
    /\ ~in_exists
    /\ adev_alive' = FALSE
    /\ output_hardware_config_is_cached' = FALSE
    /\ UNCHANGED <<out_card, out_device, in_card, in_device, cached_output_hardware_config,
                   stream_vars, lock_vars, pc, arg, res, crashed>>

\* lines 1039-1074: calloc gives a zeroed audio_device
adev_open ==
    /\ ~crashed
    /\ ~adev_alive
    /\ adev_alive' = TRUE
    /\ out_card' = 0
    /\ out_device' = 0
    /\ in_card' = 0
    /\ in_device' = 0
    /\ lock' = NoThread
    /\ UNCHANGED <<cache_vars, stream_vars, out_lock, pc, arg, res, crashed>>

(* -------------------------------------------------------- the input stream *)
\* what the input calls leave alone
out_vars == <<adev_alive, out_card, out_device, cache_vars, exists, pcm, pcm_at_open,
              standby, conversion_buffer_size, opens, out_lock, crashed>>

\* hal_config->sample_rate of the framework
RequestedRates == {0, 48000}

\* lines 941-1015: a zeroed stream_in with the default config at the rate asked for
adev_open_input_stream(w, t) ==
    \E sample_rate \in RequestedRates :
        /\ ~crashed
        /\ adev_alive
        /\ t \in w.threads
        /\ pc[t] = "idle"
        /\ ~in_exists
        /\ in_exists' = TRUE
        /\ in_pcm' = "NULL"
        /\ in_standby_flag' = TRUE
        /\ in_requested_rate' = sample_rate
        /\ in_alsa_pcm_config' =
                [default_alsa_in_config EXCEPT
                    !.rate = IF sample_rate # 0 THEN sample_rate ELSE @]
        /\ arg' = IF w.record
                  THEN [arg EXCEPT ![t] = [NoArg EXCEPT !.op = "adev_open_input_stream",
                                                        !.frames = sample_rate]]
                  ELSE arg
        /\ Record(w, t, [NoRes EXCEPT
                            !.ret = 0,
                            !.reported = [NoReport EXCEPT
                                !.format = alsa_to_fw_format_id(default_alsa_in_config.format)]])
        /\ Goto(t, IF w.record THEN "done" ELSE "idle")
        /\ UNCHANGED <<out_vars, in_card, in_device, lock>>

\* lines 1017-1020: nothing; the framework has no stream_in any more
adev_close_input_stream(w, t) ==
    /\ ~crashed
    /\ adev_alive
    /\ t \in w.threads
    /\ pc[t] = "idle"
    /\ in_exists
    /\ \A u \in Threads : arg[u].op # "in_set_parameters"
    /\ in_exists' = FALSE
    /\ arg' = IF w.record
              THEN [arg EXCEPT ![t] = [NoArg EXCEPT !.op = "adev_close_input_stream"]]
              ELSE arg
    /\ Record(w, t, NoRes)
    /\ Goto(t, IF w.record THEN "done" ELSE "idle")
    /\ UNCHANGED <<out_vars, in_card, in_device, in_alsa_pcm_config, in_fields, lock>>

call_in_set_parameters(w, t) ==
    /\ ~crashed
    /\ adev_alive
    /\ t \in w.threads
    /\ pc[t] = "idle"
    /\ in_exists
    /\ Call(t, "in_set_parameters", 0, "in_setparam_lock_dev")

\* a test that asks, as line 385 does, for a card or device key
in_set_parameters_resolves_on_key(key_card, key_device, card, device) ==
    (key_card # NoKey \/ key_device # NoKey) /\ card >= 0 /\ device >= 0

\* the test at line 833
in_set_parameters_resolves(key_card, key_device, card, device) ==
    card >= 0 /\ device >= 0

\* lines 823-836, with the device lock held, for the "card" and "device" of
\* kvpairs; the transport has the device or not
in_set_parameters_body(w, t) ==
    /\ ~crashed
    /\ pc[t] = "in_setparam_body"
    /\ \E key_card \in w.cards, key_device \in w.devices :
        LET card == IF key_card # NoKey THEN atoi(key_card) ELSE in_card
            device == IF key_device # NoKey THEN atoi(key_device) ELSE in_device
        IN
        /\ arg' = IF w.record
                  THEN [arg EXCEPT ![t].card = key_card, ![t].device = key_device]
                  ELSE arg
        /\ in_card' = card
        /\ in_device' = device
        /\ IF in_set_parameters_resolves(key_card, key_device, card, device)
           THEN \E alsa_hw_params \in {CardParams(card), NoParams} :
                  LET r == read_alsa_device_config(card, device, alsa_hw_params,
                                                   in_alsa_pcm_config)
                  IN  /\ in_alsa_pcm_config' = r.config
                      /\ Record(w, t, [NoRes EXCEPT !.ret = r.ret,
                                                    !.config = in_alsa_pcm_config])
           ELSE /\ UNCHANGED in_alsa_pcm_config
                /\ Record(w, t, [NoRes EXCEPT !.ret = 0, !.config = in_alsa_pcm_config])
    /\ Goto(t, "in_setparam_unlock_dev")
    /\ UNCHANGED <<out_vars, in_exists, in_fields, lock>>

\* lines 838-841
in_set_parameters_unlock_dev(w, t) ==
    /\ ~crashed
    /\ pc[t] = "in_setparam_unlock_dev"
    /\ lock' = NoThread
    /\ Leave(w, t)
    /\ UNCHANGED <<dev_vars, cache_vars, stream_vars, out_lock, res, crashed>>

in_set_parameters(w, t) ==
    \/ LockDevice(t, "in_setparam_lock_dev", "in_setparam_body")
    \/ in_set_parameters_body(w, t)
    \/ in_set_parameters_unlock_dev(w, t)

\* the stream_in before the call
BeforeIn == [standby |-> in_standby_flag, pcm |-> in_pcm, size |-> 0]

\* a call on the stream_in that takes no lock: what it returns and what it
\* asks of the transport
InputCall(w, t, a, ret, io) ==
    /\ ~crashed
    /\ adev_alive
    /\ t \in w.threads
    /\ pc[t] = "idle"
    /\ in_exists
    /\ arg' = IF w.record THEN [arg EXCEPT ![t] = a] ELSE arg
    /\ Record(w, t, [NoRes EXCEPT !.ret = ret, !.io = io, !.before = BeforeIn,
                                  !.config = in_alsa_pcm_config])
    /\ Goto(t, IF w.record THEN "done" ELSE "idle")
    /\ UNCHANGED <<dev_vars, cache_vars, stream_vars, lock_vars, crashed>>

\* lines 797-801: not implemented
in_standby(w, t) ==
    InputCall(w, t, [NoArg EXCEPT !.op = "in_standby"], 0, <<>>)

\* a read that returns what pcm_read returned
in_read_return_err(err, bytes) == IF err = 0 THEN bytes ELSE err

\* line 934
in_read_return(err, bytes) == IF err = 0 THEN bytes ELSE 0

\* what pcm_read answers
ReadErrors == {0, -1, -EINVAL}

\* a read that opens the transport of a stream in standby
in_read_opens(w, t) ==
    \E frames \in w.frames, err \in ReadErrors :
        /\ ~crashed
        /\ adev_alive
        /\ t \in w.threads
        /\ pc[t] = "idle"
        /\ in_exists
        /\ in_pcm' = "open"
        /\ in_standby_flag' = FALSE
        /\ arg' = [arg EXCEPT ![t] = [NoArg EXCEPT !.op = "in_read", !.frames = frames]]
        /\ Record(w, t, [NoRes EXCEPT !.ret = in_read_return(err, 4 * frames),
                                      !.io = <<Event("pcm_read", err, "open")>>,
                                      !.before = BeforeIn,
                                      !.config = in_alsa_pcm_config])
        /\ Goto(t, "done")
        /\ UNCHANGED <<out_vars, in_card, in_device, in_exists, in_alsa_pcm_config,
                       in_requested_rate, lock>>

\* lines 929-935: pcm_read on the handle of the stream, whatever it is
in_read(w, t) ==
    \E frames \in w.frames, err \in ReadErrors :
        InputCall(w, t, [NoArg EXCEPT !.op = "in_read", !.frames = frames],
                  in_read_return(err, 4 * frames),
                  <<Event("pcm_read", err, in_pcm)>>)

(* ------------------------------------------------------------------- Next *)
Step(w) ==
    \/ \E t \in Threads :
        \/ call_out_write(w, t)
        \/ out_write(w, t)
        \/ call_out_standby(w, t)
        \/ out_standby(w, t)
        \/ call_out_set_parameters(w, t)
        \/ out_set_parameters(w, t)
        \/ call_adev_open_output_stream(w, t)
        \/ adev_open_output_stream(w, t)
        \/ call_adev_close_output_stream(w, t)
        \/ adev_close_output_stream_free(w, t)
        \/ call_getter(w, t)
        \/ call_unsupported(w, t)
    \/ adev_close
    \/ adev_open

\* one thread calls, with every argument, and the results are kept
Next == Step(Calls) \/ \E t \in Threads : Return(t)

Spec == Init /\ [][Next]_vars

\* one thread calls on all streams, with few arguments
NextStreams == Step(Queries) \/ \E t \in Threads : Return(t)

SpecStreams == Init /\ [][NextStreams]_vars

\* the threads call concurrently
NextThreads == Step(Contention)

SpecThreads == Init /\ [][NextThreads]_vars

\* A thread in a call is scheduled again and again, and a thread that waits for
\* a mutex gets it when the mutex is free again and again.
InCall(t) ==
    \/ out_write(Contention, t)
    \/ out_standby(Contention, t)
    \/ out_set_parameters(Contention, t)
    \/ adev_open_output_stream(Contention, t)
    \/ adev_close_output_stream_free(Contention, t)

SpecThreadsFair == SpecThreads /\ \A t \in Threads : SF_vars(InCall(t))

(* ------------------------------------------------------- the conversions *)
\* The conversions on their own: every buffer of up to MaxSamples samples of
\* these bytes, converted into a buffer of its own and in place (the source
\* buffer has the room the result needs, as the conversion buffer has).
SampleBytes == {0, 1, 255}

SampleBuffers(counts) ==
    UNION {[1..(2 * n) -> SampleBytes] : n \in counts}

\* the source buffer with room behind it for a result of that many bytes
InPlace(in_buff, bytes) ==
    [i \in 1..bytes |-> IF i <= Len(in_buff) THEN in_buff[i] ELSE Poison]

ConvertArg(op, in_buff) ==
    [op |-> op, s |-> 0, in_buff |-> in_buff, num_in_samples |-> Len(in_buff) \div 2]

ConvertRes(separate, in_place) ==
    [ret |-> separate.bytes, separate |-> separate.buff, in_place |-> in_place.buff]

Convert(t, a, separate, in_place) ==
    /\ ~crashed
    /\ pc[t] = "idle"
    /\ arg' = [arg EXCEPT ![t] = a]
    /\ res' = [res EXCEPT ![t] = ConvertRes(separate, in_place)]
    /\ Goto(t, "done")
    /\ UNCHANGED <<dev_vars, cache_vars, stream_vars, lock_vars, crashed>>

\* stereo frames: an even number of samples
call_convert_2chan16_to_4chan16(t) ==
    \E in_buff \in SampleBuffers({n \in 0..MaxSamples : n % 2 = 0}) :
        LET num_in_samples == Len(in_buff) \div 2
        IN  Convert(t, ConvertArg("convert_2chan16_to_4chan16", in_buff),
                    convert_2chan16_to_4chan16(in_buff, num_in_samples,
                                               Fresh(4 * num_in_samples), FALSE),
                    convert_2chan16_to_4chan16(in_buff, num_in_samples,
                                               InPlace(in_buff, 4 * num_in_samples), TRUE))

call_convert_16_to_24_3(t) ==
    \E in_buff \in SampleBuffers(0..MaxSamples) :
        LET num_in_samples == Len(in_buff) \div 2
        IN  Convert(t, ConvertArg("convert_16_to_24_3", in_buff),
                    convert_16_to_24_3(in_buff, num_in_samples,
                                       Fresh(3 * num_in_samples), FALSE),
                    convert_16_to_24_3(in_buff, num_in_samples,
                                       InPlace(in_buff, 3 * num_in_samples), TRUE))

NextConvert ==
    \/ call_convert_2chan16_to_4chan16(1)
    \/ call_convert_16_to_24_3(1)
    \/ Return(1)

SpecConvert == Init /\ [][NextConvert]_vars

(* ---------------------------------------------------------- the resolver *)
\* read_alsa_device_config on its own: every card and device, every answer of
\* pcm_params_get out of these ranges (or NULL), into a config that holds
\* something else.
RateRanges == {<<8000, 48000>>, <<44100, 48000>>}
ChannelRanges == {<<lo, hi>> \in (1..MaxChannels) \X (1..MaxChannels) : lo <= hi}
PeriodRanges == {<<2, 8>>, <<2, 2>>, <<3, 4>>}
BitRanges == {<<8, 16>>, <<16, 24>>, <<20, 24>>, <<24, 24>>, <<32, 32>>}

Capabilities ==
    [present : {TRUE}, rate : RateRanges, channels : ChannelRanges,
     periods : PeriodRanges, bits : BitRanges]

ResolveArg(card, device, alsa_hw_params, config) ==
    [op |-> "read_alsa_device_config", s |-> 0, card |-> card, device |-> device,
     alsa_hw_params |-> alsa_hw_params, config |-> config]

call_read_alsa_device_config(t) ==
    \E card \in {-1, 0, 1}, device \in {-1, 0},
       alsa_hw_params \in Capabilities \cup {NoParams},
       config \in {zero_config, default_alsa_out_config} :
        /\ ~crashed
        /\ pc[t] = "idle"
        /\ arg' = [arg EXCEPT ![t] = ResolveArg(card, device, alsa_hw_params, config)]
        /\ res' = [res EXCEPT ![t] =
                        read_alsa_device_config(card, device, alsa_hw_params, config)]
        /\ Goto(t, "done")
        /\ UNCHANGED <<dev_vars, cache_vars, stream_vars, lock_vars, crashed>>

NextResolve ==
    \/ call_read_alsa_device_config(1)
    \/ Return(1)

SpecResolve == Init /\ [][NextResolve]_vars

\* one thread calls on the input stream, with every argument
NextInput ==
    \/ adev_open_input_stream(Calls, 1)
    \/ call_in_set_parameters(Calls, 1)
    \/ in_set_parameters(Calls, 1)
    \/ in_standby(Calls, 1)
    \/ in_read(Calls, 1)
    \/ adev_close_input_stream(Calls, 1)
    \/ Return(1)

SpecInput == Init /\ [][NextInput]_vars

\* the threads call concurrently on one stream, and the results are kept
Handles == [threads |-> Threads, streams |-> {1}, frames |-> {1}, cards |-> {NoKey},
            devices |-> {NoKey}, record |-> TRUE]

NextHandles == Step(Handles) \/ \E t \in Threads : Return(t)

SpecHandles == Init /\ [][NextHandles]_vars

\* one thread calls, on devices of other channel counts and formats
NextFormats == Step(Formats) \/ \E t \in Threads : Return(t)

SpecFormats == Init /\ [][NextFormats]_vars

(* ------------------------------------------------------ the pacing sleep *)
\* The argument of usleep at lines 581-582 on its own, for the byte counts of
\* real writes.  bytes * 1000000 is a size_t product: 32 bits wide in a
\* 32-bit build, 64 bits in a 64-bit build.  1000000 is 15625 * 64, so the
\* product modulo 2^32 is ((bytes * 15625) modulo 2^26) * 64, and its
\* quotient by a frame size that divides 64 is exact.
\* The 64-bit product does not wrap for any byte count of the model, and its
\* quotient by a frame size that divides 1000000 is exact too.
usleep_time(size_t_bits, bytes, frame_size, rate) ==
    IF size_t_bits = 32
    THEN (((bytes * 15625) % 67108864) * (64 \div frame_size)) \div rate
    ELSE (bytes * (1000000 \div frame_size)) \div rate

SleepBytes == {256 * blocks : blocks \in 0..MaxBlocks}
SleepRates == {8000, 44100, 48000}

call_usleep(t) ==
    \E size_t_bits \in {32, 64}, bytes \in SleepBytes, rate \in SleepRates :
        /\ ~crashed
        /\ pc[t] = "idle"
        /\ arg' = [arg EXCEPT ![t] = [op |-> "usleep", s |-> 0, bytes |-> bytes,
                                      rate |-> rate, size_t_bits |-> size_t_bits]]
        /\ res' = [res EXCEPT ![t] =
                        [usleep |-> usleep_time(size_t_bits, bytes, 4, rate)]]
        /\ Goto(t, "done")
        /\ UNCHANGED <<dev_vars, cache_vars, stream_vars, lock_vars, crashed>>

NextSleep ==
    \/ call_usleep(1)
    \/ Return(1)

SpecSleep == Init /\ [][NextSleep]_vars

(* ---------------------------------------------------------------- claims *)
HoldsStreamLock(t) == \E s \in Streams : out_lock[s] = t

WaitsForDevice(t) == pc[t] \in {"write_lock_dev", "standby_lock_dev", "setparam_lock_dev"}

\* C1: a thread that holds a stream lock holds the device lock (so the device
\* lock is taken first and released last), and no thread waits for the device
\* lock while it holds a stream lock.
C1_LockOrder ==
    \A t \in Threads :
        /\ HoldsStreamLock(t) => lock = t
        /\ WaitsForDevice(t) => ~HoldsStreamLock(t)

\* a thread in out_write holds both locks while another thread waits for the device
C1_Witness ==
    \E t, u \in Threads :
        /\ t # u
        /\ pc[t] = "write_body"
        /\ lock = t
        /\ out_lock[arg[t].s] = t
        /\ WaitsForDevice(u)

\* C2: whenever a thread is in a call, some thread in a call can take a step,
\* and every call that was started returns, all locks released.
C2_NoDeadlock ==
    /\ [](\A t \in Threads : pc[t] # "idle" => ENABLED (\E u \in Threads : InCall(u)))
    /\ \A t \in Threads :
          (pc[t] # "idle") ~> (pc[t] = "idle" /\ lock # t /\ ~HoldsStreamLock(t))

\* a write that failed to open the transport holds both locks while the other
\* thread waits for the device lock to put the same stream in standby
C2_Witness ==
    \E t, u \in Threads :
        /\ t # u
        /\ arg[t].s = arg[u].s
        /\ pc[t] = "write_err_unlock_out"
        /\ lock = t
        /\ pc[u] = "standby_lock_dev"

\* the call of thread t has returned and the framework has not taken the result
Done(t, op) == pc[t] = "done" /\ arg[t].op = op

IsOpen(e) == e.call = "pcm_open"

IsWrite(e) == e.call = "pcm_write"

\* C3: an Active stream has had its transport opened once since it left
\* Standby: a write that finds the stream in Standby and opens the transport
\* opens it once and leaves the stream Active, and a write that finds it Active
\* opens nothing.
C3_OpensOnce ==
    /\ \A s \in Streams : exists[s] /\ ~standby[s] => opens[s] = 1
    /\ \A t \in Threads :
          Done(t, "out_write") /\ res[t].start = 0 =>
              /\ ~standby[arg[t].s]
              /\ Len(SelectSeq(res[t].io, IsOpen))
                    = IF res[t].before.standby THEN 1 ELSE 0

\* a later write, on the stream that an earlier write made Active
C3_Witness ==
    \E t \in Threads :
        /\ Done(t, "out_write")
        /\ ~res[t].before.standby
        /\ opens[arg[t].s] = 1

\* C4: a write that returns, returns the byte count it was given, and a
\* transport write that fails leaves the stream Active.
C4_WriteReturnsBytes ==
    \A t \in Threads :
        Done(t, "out_write") =>
            /\ res[t].ret = 4 * arg[t].frames
            /\ res[t].start = 0 => ~standby[arg[t].s]

\* a write whose transport write failed
C4_Witness ==
    \E t \in Threads :
        /\ Done(t, "out_write")
        /\ arg[t].frames > 0
        /\ \E i \in DOMAIN res[t].io :
              IsWrite(res[t].io[i]) /\ res[t].io[i].r = "failed"

\* C5: every write that finds the stream in Standby starts with an open of the
\* transport; when the open fails the stream is still in Standby, nothing was
\* written to the transport and the conversion buffer has the size it had.
C5_FailedOpen ==
    \A t \in Threads :
        Done(t, "out_write") /\ res[t].before.standby =>
            /\ res[t].io # <<>>
            /\ IsOpen(res[t].io[1])
            /\ res[t].start # 0 =>
                  /\ standby[arg[t].s]
                  /\ SelectSeq(res[t].io, IsWrite) = <<>>
                  /\ conversion_buffer_size[arg[t].s] = res[t].before.size

\* a write that fails to open the transport after an earlier write got a
\* handle that was not ready
C5_Witness ==
    \E t \in Threads :
        /\ Done(t, "out_write")
        /\ res[t].before.standby
        /\ res[t].before.pcm = "closed"
        /\ res[t].start # 0
        /\ arg[t].frames > 0

\* C6: the step of out_standby that runs with both locks held closes the
\* open handle once, clears the handle field and leaves the stream in Standby
\* when the stream is Active, and closes nothing and changes nothing of the
\* device, the cache and the streams when the stream is in Standby.
C6_Standby ==
    [][\A t \in Threads :
          pc[t] = "standby_body" /\ pc'[t] # "standby_body" =>
              IF ~standby[arg[t].s]
              THEN /\ res'[t].io = <<Event("pcm_close", "open", <<>>)>>
                   /\ pcm'[arg[t].s] = "NULL"
                   /\ standby'[arg[t].s]
              ELSE /\ res'[t].io = <<>>
                   /\ UNCHANGED <<dev_vars, cache_vars, stream_vars>>]_vars

\* standby has returned on a stream that was Active
C6_Witness ==
    \E t \in Threads :
        /\ Done(t, "out_standby")
        /\ ~res[t].before.standby
        /\ res[t].before.pcm = "open"
        /\ standby[arg[t].s]
        /\ pcm[arg[t].s] = "NULL"

\* C7: a stream is in Standby exactly when its handle field is empty, and
\* Active exactly when the field holds an open handle.
C7_StandbyIffNoHandle ==
    \A s \in Streams :
        exists[s] =>
            /\ standby[s] <=> pcm[s] = "NULL"
            /\ ~standby[s] <=> pcm[s] = "open"

\* C8: get_channels returns stereo and get_format 16-bit PCM, and the
\* configuration that adev_open_output_stream reports has stereo and 16-bit
\* PCM, with the cache valid or not.
C8_BoundaryFormat ==
    /\ \A s \in Streams :
          exists[s] =>
              /\ out_get_channels(s) = AUDIO_CHANNEL_OUT_STEREO
              /\ out_get_format(s) = AUDIO_FORMAT_PCM_16_BIT
    /\ \A t \in Threads :
          /\ Done(t, "out_get_channels") => res[t].ret = AUDIO_CHANNEL_OUT_STEREO
          /\ Done(t, "out_get_format") => res[t].ret = AUDIO_FORMAT_PCM_16_BIT
          /\ Done(t, "adev_open_output_stream") =>
                /\ res[t].reported.format = AUDIO_FORMAT_PCM_16_BIT
                /\ res[t].reported.channel_mask = AUDIO_CHANNEL_OUT_STEREO

\* a stream was opened with the cache valid for a device of four channels and
\* packed 24-bit samples
C8_Witness ==
    \E t \in Threads :
        /\ Done(t, "adev_open_output_stream")
        /\ res[t].cached
        /\ res[t].config.channels = 4
        /\ res[t].config.format = PCM_FORMAT_S24_3LE

\* C9: for every stream, in every state, the sample rate is the rate of the
\* cache, the buffer size its period_size times 4 and the latency
\* (period_size * period_count * 1000) / rate, so that all streams give the
\* same values, and so do the getters that have returned.
C9_FromCache ==
    LET c == cached_output_hardware_config
        latency == (c.period_size * c.period_count * 1000) \div c.rate
    IN  /\ \A s \in Streams :
              exists[s] =>
                  /\ out_get_sample_rate(s) = c.rate
                  /\ out_get_buffer_size(s) = c.period_size * 4
                  /\ out_get_latency(s) = latency
        /\ \A t \in Threads :
              /\ Done(t, "out_get_sample_rate") => res[t].ret = c.rate
              /\ Done(t, "out_get_buffer_size") => res[t].ret = c.period_size * 4
              /\ Done(t, "out_get_latency") => res[t].ret = latency

\* the sample rate was asked of an Active stream whose transport was opened
\* with another rate than the cache has now, while the other stream is in Standby
C9_Witness ==
    \E t \in Threads, s \in Streams :
        /\ Done(t, "out_get_sample_rate")
        /\ s # arg[t].s
        /\ exists[s]
        /\ standby[s]
        /\ ~standby[arg[t].s]
        /\ pcm_at_open[arg[t].s].config.rate # cached_output_hardware_config.rate

\* the bytes of four channels of packed 24-bit samples for stereo 16-bit data
Expected24Quad(data) ==
    [j \in 1..(3 * Len(data)) |->
        LET frame == (j - 1) \div 12
            channel == ((j - 1) % 12) \div 3
            byte == (j - 1) % 3
        IN  IF channel >= 2 \/ byte = 0 THEN 0
            ELSE data[4 * frame + 2 * channel + byte]]

\* C10: with four channels and packed 24-bit samples in the cache, a write of
\* N bytes that opened the transport or found it open hands the transport 3N
\* bytes: per frame the two input samples widened, then two samples of zeros.
C10_QuadPacked ==
    \A t \in Threads :
        ( /\ arg[t].op = "out_write"
          /\ pc[t] \in {"write_unlock_out", "write_unlock_dev", "done", "killed"}
          /\ res[t].config.channels = 4
          /\ res[t].config.format = PCM_FORMAT_S24_3LE
          /\ res[t].start = 0
          /\ arg[t].frames > 0 )
        => /\ res[t].io # <<>>
           /\ IsWrite(res[t].io[Len(res[t].io)])
           /\ res[t].io[Len(res[t].io)].data = Expected24Quad(AudioData(arg[t].frames))


\* C11: channel expansion of an even number of 16-bit samples returns twice the
\* bytes it was given, frame f of the result is samples 2f and 2f+1 of the
\* input followed by two samples of silence, and the result in place is the
\* result with a destination of its own.
C11_Expansion ==
    \A t \in Threads :
        Done(t, "convert_2chan16_to_4chan16") =>
            LET in_buff == arg[t].in_buff
                r == res[t]
            IN  /\ r.ret = 2 * Len(in_buff)
                /\ Len(r.separate) = r.ret
                /\ \A f \in 0..(arg[t].num_in_samples \div 2 - 1) :
                        /\ GetShort(r.separate, 4 * f) = GetShort(in_buff, 2 * f)
                        /\ GetShort(r.separate, 4 * f + 1) = GetShort(in_buff, 2 * f + 1)
                        /\ GetShort(r.separate, 4 * f + 2) = <<0, 0>>
                        /\ GetShort(r.separate, 4 * f + 3) = <<0, 0>>
                /\ r.in_place = r.separate

\* two frames whose four samples all differ and are not silence were expanded
C11_Witness ==
    \E t \in Threads :
        /\ Done(t, "convert_2chan16_to_4chan16")
        /\ arg[t].in_buff = <<1, 0, 255, 0, 0, 1, 255, 255>>
        /\ res[t].in_place = <<1, 0, 255, 0, 0, 0, 0, 0, 0, 1, 255, 255, 0, 0, 0, 0>>

\* C12: widening of 16-bit little-endian samples returns 3/2 of the bytes it
\* was given, bytes 3k, 3k+1 and 3k+2 of the result are zero, the low byte and
\* the high byte of sample k, and the result in place is the result with a
\* destination of its own.
C12_Widening ==
    \A t \in Threads :
        Done(t, "convert_16_to_24_3") =>
            LET in_buff == arg[t].in_buff
                r == res[t]
            IN  /\ 2 * r.ret = 3 * Len(in_buff)
                /\ Len(r.separate) = r.ret
                /\ \A k \in 0..(arg[t].num_in_samples - 1) :
                        /\ r.separate[3 * k + 1] = 0
                        /\ r.separate[3 * k + 2] = in_buff[2 * k + 1]
                        /\ r.separate[3 * k + 3] = in_buff[2 * k + 2]
                /\ r.in_place = r.separate

\* three samples whose low and high bytes differ were widened
C12_Witness ==
    \E t \in Threads :
        /\ Done(t, "convert_16_to_24_3")
        /\ arg[t].in_buff = <<1, 255, 255, 0, 0, 1>>
        /\ res[t].in_place = <<0, 1, 255, 0, 255, 0, 0, 0, 1>>


\* a call of read_alsa_device_config for a device that is there
Resolved(t) ==
    /\ Done(t, "read_alsa_device_config")
    /\ arg[t].card >= 0
    /\ arg[t].device >= 0
    /\ arg[t].alsa_hw_params.present

\* the lowest-numbered format of that width, or 16-bit
FirstFormat(bits) ==
    LET width == [format \in {PCM_FORMAT_S16_LE, PCM_FORMAT_S32_LE, PCM_FORMAT_S8,
                              PCM_FORMAT_S24_LE, PCM_FORMAT_S24_3LE} |->
                    pcm_format_to_bits(format)]
        match == {format \in DOMAIN width : width[format] = bits}
    IN  IF match = {} THEN PCM_FORMAT_S16_LE
        ELSE CHOOSE format \in match : \A other \in match : format <= other

ExampleRanges ==
    [present |-> TRUE, rate |-> <<8000, 48000>>, channels |-> <<1, 4>>,
     periods |-> <<2, 8>>, bits |-> <<16, 24>>]

\* C13: the resolved configuration is a function of the reported ranges only:
\* the minimum rate, the minimum channel count, the maximum of "periods" as
\* period_size, the minimum of "periods" as period_count, and the first format
\* (from the lowest-numbered one upward) whose width is the minimum sample
\* width, 16-bit when there is none; the example ranges give 8000 Hz, 1
\* channel, period_size 8, period_count 2, 16-bit.
C13_Resolver ==
    \A t \in Threads :
        Resolved(t) =>
            LET ranges == arg[t].alsa_hw_params
            IN  /\ res[t].ret = 0
                /\ res[t].config.rate = ranges.rate[1]
                /\ res[t].config.channels = ranges.channels[1]
                /\ res[t].config.period_size = ranges.periods[2]
                /\ res[t].config.period_count = ranges.periods[1]
                /\ res[t].config.format = FirstFormat(ranges.bits[1])
                /\ ranges = ExampleRanges =>
                        res[t].config = [rate |-> 8000, channels |-> 1, period_size |-> 8,
                                         period_count |-> 2, format |-> PCM_FORMAT_S16_LE]

\* the example ranges were resolved into a config that held the default
C13_Witness ==
    \E t \in Threads :
        /\ Resolved(t)
        /\ arg[t].alsa_hw_params = ExampleRanges
        /\ arg[t].config = default_alsa_out_config
        /\ res[t].config.period_size = 8

\* C14: the resolver fails with an invalid-argument error for a negative card
\* or device, fails with another error, one that is not the invalid-argument
\* error, when the transport has no capability set for the device, and leaves
\* the destination config as it was in both cases.
C14_Failures ==
    \A t \in Threads :
        Done(t, "read_alsa_device_config") =>
            /\ (arg[t].card < 0 \/ arg[t].device < 0) =>
                    /\ res[t].ret = -EINVAL
                    /\ res[t].config = arg[t].config
            /\ (arg[t].card >= 0 /\ arg[t].device >= 0 /\ ~arg[t].alsa_hw_params.present) =>
                    /\ res[t].ret < 0
                    /\ res[t].ret # -EINVAL
                    /\ res[t].config = arg[t].config

\* C18: a successful resolution gives 1, 2 or 4 channels and an 8-bit, 16-bit,
\* 24-bit packed or 32-bit format, whatever the transport reports.
C18_ResolvedDomain ==
    \A t \in Threads :
        (Done(t, "read_alsa_device_config") /\ res[t].ret = 0) =>
            /\ res[t].config.channels \in {1, 2, 4}
            /\ res[t].config.format \in {PCM_FORMAT_S8, PCM_FORMAT_S16_LE,
                                          PCM_FORMAT_S24_3LE, PCM_FORMAT_S32_LE}


\* an out_set_parameters that changed the card or the device
Rerouted(t) ==
    /\ Done(t, "out_set_parameters")
    /\ (arg[t].card # NoKey \/ arg[t].device # NoKey)

\* what the resolver makes of the devices of the model
ConfigOfCard(card) ==
    IF card = 0
    THEN [channels |-> 2, rate |-> 44100, period_size |-> 2, period_count |-> 2,
          format |-> PCM_FORMAT_S16_LE]
    ELSE [channels |-> 4, rate |-> 48000, period_size |-> 3, period_count |-> 3,
          format |-> PCM_FORMAT_S24_3LE]

\* C16: after a successful update of the cache every field of the cached
\* config is the value resolved for the device of that update, whatever the
\* cache held before (the config of another device, or the default config).
C16_Overwrite ==
    \A t \in Threads :
        (Rerouted(t) /\ out_card >= 0 /\ out_device >= 0 /\ res[t].ret = 0) =>
            /\ output_hardware_config_is_cached
            /\ cached_output_hardware_config.channels = ConfigOfCard(out_card).channels
            /\ cached_output_hardware_config.rate = ConfigOfCard(out_card).rate
            /\ cached_output_hardware_config.format = ConfigOfCard(out_card).format
            /\ cached_output_hardware_config.period_size = ConfigOfCard(out_card).period_size
            /\ cached_output_hardware_config.period_count = ConfigOfCard(out_card).period_count

\* card 1 was cached over the valid config of card 0, which differs from it
\* and from the default config in every field
C16_Witness ==
    \E t \in Threads :
        /\ Rerouted(t)
        /\ res[t].ret = 0
        /\ out_card = 1
        /\ out_device >= 0
        /\ res[t].cached
        /\ res[t].config = ConfigOfCard(0)
        /\ \A field \in DOMAIN zero_config :
                /\ ConfigOfCard(1)[field] # ConfigOfCard(0)[field]
                /\ ConfigOfCard(1)[field] # default_alsa_out_config[field]


\* an out_set_parameters without a key, or one that leaves the card or the
\* device negative, leaves the cache and its flag as they were and returns 0
OutputUntouched ==
    \A t \in Threads :
        (/\ Done(t, "out_set_parameters")
         /\ (~Rerouted(t) \/ out_card < 0 \/ out_device < 0)) =>
            /\ cached_output_hardware_config = res[t].config
            /\ output_hardware_config_is_cached = res[t].cached
            /\ res[t].ret = 0

\* an in_set_parameters without a key leaves the config of the stream as it was
InputUntouched ==
    \A t \in Threads :
        (/\ Done(t, "in_set_parameters")
         /\ arg[t].card = NoKey
         /\ arg[t].device = NoKey) =>
            in_alsa_pcm_config = res[t].config

\* C15: set_parameters calls the resolver and touches the config it feeds only
\* when the request changes the card or the device and both are non-negative
\* after it: an output request without a key, or one that leaves a coordinate
\* negative, leaves the cache and its flag as they were and returns success,
\* and an input request without a key leaves the config of the input stream
\* as it was.
C15_FrameEffect == OutputUntouched /\ InputUntouched


\* the steps that read or write the cache, its flag, or out_card and
\* out_device: the thread is about to take that step
TouchesCache(t) ==
    pc[t] \in {"setparam_body", "write_body", "open_check", "open_cached", "open_default"}

\* C17: a thread that reads or writes the cached config or its flag, or writes
\* the routing fields, holds the device lock when it does; this covers
\* set_parameters, write and open_output_stream.
C17_UnderDeviceLock ==
    \A t \in Threads : TouchesCache(t) => lock = t


\* C19: the conversion buffer of an Active stream has 3 times the bytes of the
\* buffer size the stream reports now (the cached period_size times the 4
\* bytes of a frame), also after out_set_parameters or adev_open_output_stream
\* changed the cache while the stream stayed Active.
C19_BufferFollowsCache ==
    \A s \in Streams :
        (exists[s] /\ ~standby[s]) =>
            conversion_buffer_size[s] = 3 * (cached_output_hardware_config.period_size * 4)

\* a write that went through the conversions: it is past lines 535-566
Converting(t) ==
    /\ arg[t].op = "out_write"
    /\ pc[t] \in {"write_unlock_out", "write_unlock_dev", "done", "killed"}
    /\ res[t].start = 0
    /\ (res[t].config.channels = 4 \/ res[t].config.format = PCM_FORMAT_S24_3LE)

\* C20: a write that runs a conversion never produces more bytes than the
\* conversion buffer of the stream has, whatever the byte count of the write
\* and whatever calls came before it.
C20_ConversionFits ==
    \A t \in Threads :
        Converting(t) => res[t].written <= conversion_buffer_size[arg[t].s]


\* C21: in_read hands the request to the transport once and returns the bytes
\* asked for when the transport answers 0 and 0 when it answers anything else;
\* it leaves the stream as it was.
C21_Read ==
    \A t \in Threads :
        Done(t, "in_read") =>
            /\ Len(res[t].io) = 1
            /\ res[t].io[1].call = "pcm_read"
            /\ res[t].io[1].r = 0 => res[t].ret = 4 * arg[t].frames
            /\ res[t].io[1].r # 0 => res[t].ret = 0
            /\ in_alsa_pcm_config = res[t].config
            /\ BeforeIn = res[t].before

\* the transport refused a read of some bytes
C21_Witness ==
    \E t \in Threads :
        /\ Done(t, "in_read")
        /\ arg[t].frames > 0
        /\ res[t].io[1].r = -EINVAL
        /\ res[t].ret = 0


\* the config adev_open_input_stream gives a stream asked for that rate
InputDefault(requested_rate) ==
    [channels |-> 2, rate |-> IF requested_rate # 0 THEN requested_rate ELSE 44100,
     period_size |-> 1024, period_count |-> 4, format |-> PCM_FORMAT_S16_LE]

C29_NoInputHandle ==
    /\ in_exists => (in_pcm = "NULL" /\ in_standby_flag)
    /\ \A t \in Threads :
        /\ Done(t, "in_read") => res[t].io[1].data = "NULL"
        /\ (Done(t, "in_standby") \/ Done(t, "adev_close_input_stream")) =>
                /\ res[t].io = <<>>
                /\ in_pcm = "NULL"
                /\ in_standby_flag
        /\ Done(t, "in_standby") =>
                /\ in_exists
                /\ BeforeIn = res[t].before
                /\ in_alsa_pcm_config = res[t].config

\* a read that the transport answered with 0, on a stream whose config was
\* resolved for card 1
C29_Witness ==
    \E t \in Threads :
        /\ Done(t, "in_read")
        /\ res[t].io[1].r = 0
        /\ arg[t].frames > 0
        /\ in_alsa_pcm_config = ConfigOfCard(1)


IsClose(e) == e.call = "pcm_close"

Sleeps(t) == pc[t] = "write_usleep"

\* C26: a write whose open failed sleeps after it has released the stream
\* lock and the device lock: while it sleeps it holds no lock, so the device
\* lock is free or held by another thread in its call.
C26_SleepsUnlocked ==
    \A t \in Threads :
        Sleeps(t) =>
            /\ lock # t
            /\ ~HoldsStreamLock(t)
            /\ \A u \in Threads \ {t} :
                    (WaitsForDevice(u) /\ lock = NoThread) =>
                        ENABLED LockDevice(u, pc[u], pc[u])

\* while a thread sleeps another thread is in out_write with both locks, on
\* the same stream
C26_Witness ==
    \E t, u \in Threads :
        /\ t # u
        /\ Sleeps(t)
        /\ pc[u] = "write_body"
        /\ lock = u
        /\ arg[u].s = arg[t].s
        /\ out_lock[arg[u].s] = u


\* C23: out_set_volume and out_get_render_position return the same indicator
\* of an operation that is not supported, in every state of the stream, and
\* leave the stream and the cache as they were.
C23_Unsupported ==
    \A t \in Threads :
        (Done(t, "out_set_volume") \/ Done(t, "out_get_render_position")) =>
            /\ res[t].ret = -ENOSYS
            /\ Before(arg[t].s) = res[t].before
            /\ cached_output_hardware_config = res[t].config
            /\ output_hardware_config_is_cached = res[t].cached


\* a write that got past start_output_stream and has returned
Written(t) ==
    /\ Done(t, "out_write")
    /\ res[t].start = 0
    /\ arg[t].frames > 0

\* C24: a write of N bytes hands the caller's bytes to the transport as they
\* are when the cached channel count is not 4 and the cached format is not
\* 24-bit packed; the channels are expanded only for 4 channels (2N bytes)
\* and the samples widened only for 24-bit packed (3N/2 bytes, 3N with both);
\* a format the write does not know never makes it fail.
C24_PassThrough ==
    \A t \in Threads :
        Written(t) =>
            LET config == res[t].config
                last == res[t].io[Len(res[t].io)]
                N == 4 * arg[t].frames
                expands == config.channels = 4
                widens == config.format = PCM_FORMAT_S24_3LE
            IN  /\ res[t].ret = N
                /\ IsWrite(last)
                /\ (~expands /\ ~widens) => last.data = AudioData(arg[t].frames)
                /\ (expands /\ ~widens) => Len(last.data) = 2 * N
                /\ (~expands /\ widens) => 2 * Len(last.data) = 3 * N
                /\ (expands /\ widens) => Len(last.data) = 3 * N

\* a write to a mono 32-bit device
C24_Witness ==
    \E t \in Threads :
        /\ Written(t)
        /\ res[t].config.channels = 1
        /\ res[t].config.format = PCM_FORMAT_S32_LE
        /\ arg[t].frames = 2
        /\ res[t].io[Len(res[t].io)].data = AudioData(2)


\* the microseconds it takes to play that many bytes of stereo 16-bit frames
PlaybackMicros(bytes, rate) ==
    LET frames == bytes \div 4
    IN  frames * (1000000 \div rate) + (frames * (1000000 % rate)) \div rate

\* a write that reached the transport has not slept
NoSleepAfterWrite ==
    \A t \in Threads :
        (Done(t, "out_write") /\ res[t].start = 0) => res[t].usleep = -1

\* C25: a write that could not open the transport sleeps for the time it
\* takes to play the bytes it dropped, bytes * 1000000 / 4 / rate microseconds,
\* for every byte count; a write that reached the transport does not sleep.
C25_SleepTime ==
    /\ NoSleepAfterWrite
    /\ \A t \in Threads :
        Done(t, "usleep") => res[t].usleep = PlaybackMicros(arg[t].bytes, arg[t].rate)


\* a write on an Active stream that has converted and handed over its data and
\* still holds both locks
WritesActive(t) ==
    /\ arg[t].op = "out_write"
    /\ pc[t] = "write_unlock_out"
    /\ res[t].start = 0

\* C27: a write on an Active stream converts its data for the config the
\* transport handle of the stream was opened with, and that handle was opened
\* on the card and device of the current output routing, after any
\* interleaving of out_set_parameters, adev_open_output_stream and out_write.
C27_HandleFollowsRouting ==
    \A t \in Threads :
        WritesActive(t) =>
            /\ res[t].config = pcm_at_open[arg[t].s].config
            /\ pcm_at_open[arg[t].s].card = out_card
            /\ pcm_at_open[arg[t].s].device = out_device


\* the cache holds what was resolved for one of the cards the routing is not on
HoldsOtherDevice ==
    \E card \in {0, 1} \ {out_card} : cached_output_hardware_config = ConfigOfCard(card)

\* a valid cache is the config of the current routing
C30_ValidCache ==
    output_hardware_config_is_cached =>
        /\ out_card >= 0
        /\ out_device >= 0
        /\ cached_output_hardware_config = ConfigOfCard(out_card)

\* an invalid cache, which writes and getters read all the same, holds nothing
\* of another device
C30_InvalidCache ==
    ~output_hardware_config_is_cached => ~HoldsOtherDevice

\* C30: while the cache is flagged valid it holds the config resolved for the
\* current output routing and both out_card and out_device are non-negative;
\* while it is not, writes and getters use no values resolved for a device
\* other than the current routing.
C30_CacheFollowsRouting ==
    /\ C30_ValidCache
    /\ C30_InvalidCache

====
